---- MODULE Spec2Model ----
(***************************************************************************)
(* A model of help_funs.py: the JobSearchBot extractors, the per-source    *)
(* searchers and the batch functions search_jobs_multiple_sources and      *)
(* search_jobs_buscojobs_only.                                             *)
(*                                                                         *)
(* The browser is the environment.  What it answers to one call of the     *)
(* code (find_element on a card, a navigation, a wait) is an input, drawn  *)
(* from a small set.  Three specifications share the variables:            *)
(*   SpecExtract  one extractor applied to one card;                       *)
(*   SpecSearch   one searcher call on one bot against one page;           *)
(*   Spec         a whole batch run.                                       *)
(***************************************************************************)
EXTENDS Integers, Sequences, FiniteSets, TLC

VARIABLES ex, se, sc, pc, mode, keywords, locations, max_results_per_source,
          ki, li, si, driver, created, released, all_jobs, unique_jobs,
          last

vars == <<ex, se, sc, pc, mode, keywords, locations, max_results_per_source,
          ki, li, si, driver, created, released, all_jobs, unique_jobs,
          last>>

-----------------------------------------------------------------------------
(* Text.  A text is a sequence of characters; str.strip() removes the      *)
(* leading and trailing whitespace.                                        *)

RECURSIVE LStrip(_)
LStrip(s) ==
    IF s # <<>> /\ Head(s) = " " THEN LStrip(Tail(s)) ELSE s

RECURSIVE RStrip(_)
RStrip(s) ==
    IF s # <<>> /\ s[Len(s)] = " " THEN RStrip(SubSeq(s, 1, Len(s) - 1)) ELSE s

Strip(s) == RStrip(LStrip(s))

\* Python's None and the empty string, as href / job_url values.
None == "None"

EmptyStr == ""

\* `not x` for a job_url: None and '' are falsy.
Falsy(u) == u = None \/ u = EmptyStr

-----------------------------------------------------------------------------
(* Elements.  The answer of card.find_element(By.CSS_SELECTOR, selector):  *)
(* an element (found) or NoSuchElementException (not found).               *)

NoElem == [found |-> FALSE, text |-> <<>>, tag |-> "", href |-> None]

Elem(text, tag, href) == [found |-> TRUE, text |-> text, tag |-> tag, href |-> href]

\* element.get_attribute('href'): None when the element has no href.
GetHref(e) == e.href

-----------------------------------------------------------------------------
(* The selector lists of _extract_buscojobs_job_info.                      *)
(* (The second location selector is written here without the accent the   *)
(* source has on its o.)                                                   *)

title_selectors ==
    << "h1", "h2", "h3", "h4", "[class*='title']", "[class*='job-title']",
       "[class*='position']", "a[href*='job']", "a[href*='trabajo']" >>

company_selectors ==
    << "[class*='company']", "[class*='empresa']", "[class*='employer']",
       "span[class*='company']", "div[class*='company']" >>

location_selectors ==
    << "[class*='location']", "[class*='ubicacion']", "[class*='place']",
       "[class*='city']", "span[class*='location']", "div[class*='location']" >>

date_selectors ==
    << "[class*='date']", "[class*='fecha']", "[class*='time']",
       "[class*='posted']", "span[class*='date']", "div[class*='date']" >>

Fields == <<"title", "company", "location", "date">>

\* The job_info key a field's text is stored under.
KeyOf(f) == IF f = "date" THEN "posted_date" ELSE f

\* job_info as every extractor creates it.
NewJobInfo(source) ==
    [title |-> <<>>, company |-> <<>>, location |-> <<>>, posted_date |-> <<>>,
     job_url |-> EmptyStr, source |-> source]

(***************************************************************************)
(* A card is what the page answers for it: card[f][i] is the answer to the *)
(* i-th selector the extractor in use has for field f (the fixed-schema    *)
(* and generic extractors have one selector per field), card.link the      *)
(* answer to "a[href]".                                                    *)
(***************************************************************************)

\* An extractor's outcome: ret is <<>> for None and <<job_info>> otherwise;
\* probes lists the find_element calls made, in order, as <<field, index>>.
Outcome(ret, probes) == [ret |-> ret, probes |-> probes]

-----------------------------------------------------------------------------
(* The fixed-schema extractors: _extract_linkedin_job_info,                *)
(* _extract_indeed_job_info and _extract_generic_job_info.  One selector   *)
(* per field, tried once, all inside one try block: the first              *)
(* find_element that raises NoSuchElementException ends the extraction in  *)
(* the except branch, which returns None.                                  *)

\* job_info after the element e was found for field f.
StoreField(info, f, e) ==
    IF f = "title"
    THEN [info EXCEPT !.title = Strip(e.text), !.job_url = GetHref(e)]
    ELSE [info EXCEPT ![KeyOf(f)] = Strip(e.text)]

RECURSIVE ExtractFixedFrom(_, _, _, _, _)
ExtractFixedFrom(card, selectors, i, info, probes) ==
    IF i > Len(Fields)
    THEN Outcome(<<info>>, probes)
    ELSE LET f == Fields[i] IN
         IF f \notin selectors
         THEN ExtractFixedFrom(card, selectors, i + 1, info, probes)
         ELSE LET e == card[f][1]
                  p == Append(probes, <<f, 1>>)
              IN  IF ~e.found
                  THEN Outcome(<<>>, p)
                  ELSE ExtractFixedFrom(card, selectors, i + 1, StoreField(info, f, e), p)

AllFields == {"title", "company", "location", "date"}

extract_linkedin_job_info(job_card) ==
    ExtractFixedFrom(job_card, AllFields, 1, NewJobInfo("LinkedIn"), <<>>)

extract_indeed_job_info(job_card) ==
    ExtractFixedFrom(job_card, AllFields, 1, NewJobInfo("Indeed"), <<>>)

\* selectors: the keys of the caller's selector profile.
extract_generic_job_info(job_card, selectors) ==
    ExtractFixedFrom(job_card, selectors, 1, NewJobInfo("Generic"), <<>>)

-----------------------------------------------------------------------------
(* _extract_buscojobs_job_info: per field a list of candidate selectors,   *)
(* each tried in its own try block; NoSuchElementException goes on to the  *)
(* next candidate, a found element is stored and ends the loop.            *)

\* A cascade whose loop lacks the break: every candidate is tried and the
\* last match wins.
RECURSIVE CascadeNoBreak(_, _)
CascadeNoBreak(resps, i) ==
    IF i > Len(resps) THEN 0
    ELSE LET rest == CascadeNoBreak(resps, i + 1) IN
         IF rest # 0 THEN rest ELSE IF resps[i].found THEN i ELSE 0

\* The index of the candidate the loop stops at, from candidate i on;
\* 0 when the loop runs off the end of the list.
RECURSIVE CascadeFrom(_, _)
CascadeFrom(resps, i) ==
    IF i > Len(resps) THEN 0
    ELSE IF resps[i].found THEN i
    ELSE CascadeFrom(resps, i + 1)

\* The find_element calls the loop makes for field f: candidates 1..hit, or
\* the whole list when nothing is found.
CascadeProbes(f, resps, hit) ==
    [j \in 1..(IF hit = 0 THEN Len(resps) ELSE hit) |-> <<f, j>>]

\* The title loop also takes job_url when the element is a link.
StoreBuscoField(info, f, e) ==
    IF f = "title"
    THEN IF e.tag = "a"
         THEN [info EXCEPT !.title = Strip(e.text), !.job_url = GetHref(e)]
         ELSE [info EXCEPT !.title = Strip(e.text)]
    ELSE [info EXCEPT ![KeyOf(f)] = Strip(e.text)]

RECURSIVE BuscoFieldsFrom(_, _, _, _)
BuscoFieldsFrom(card, i, info, probes) ==
    IF i > Len(Fields)
    THEN Outcome(<<info>>, probes)
    ELSE LET f   == Fields[i]
             hit == CascadeFrom(card[f], 1)
             p   == probes \o CascadeProbes(f, card[f], hit)
         IN  BuscoFieldsFrom(card, i + 1,
                 IF hit = 0 THEN info ELSE StoreBuscoField(info, f, card[f][hit]), p)

\* A backfill that looks for a link whatever job_url holds.
UrlBackfillAlways(card, o) ==
    LET info == o.ret[1] IN
    Outcome(<< IF card.link.found
               THEN [info EXCEPT !.job_url = GetHref(card.link)]
               ELSE info >>,
            Append(o.probes, <<"link", 1>>))

\* "If no job URL found, try to find any link in the card."
UrlBackfill(card, o) ==
    LET info == o.ret[1] IN
    IF Falsy(info.job_url)
    THEN Outcome(<< IF card.link.found
                    THEN [info EXCEPT !.job_url = GetHref(card.link)]
                    ELSE info >>,
                 Append(o.probes, <<"link", 1>>))
    ELSE o

\* "Only return if we have at least a title."
TitleGate(o) ==
    IF o.ret[1].title # <<>> THEN o ELSE Outcome(<<>>, o.probes)

extract_buscojobs_job_info(job_card) ==
    TitleGate(UrlBackfill(job_card,
        BuscoFieldsFrom(job_card, 1, NewJobInfo("BuscoJobs Uruguay"), <<>>)))

\* The extractor each source's searcher calls.
Extract(source, card, selectors) ==
    CASE source = "LinkedIn" -> extract_linkedin_job_info(card)
      [] source = "Indeed"   -> extract_indeed_job_info(card)
      [] source = "Generic"  -> extract_generic_job_info(card, selectors)
      [] OTHER               -> extract_buscojobs_job_info(card)

-----------------------------------------------------------------------------
(* The cards the extractors are applied to.                                *)

Sources == {"LinkedIn", "Indeed", "Generic", "BuscoJobs Uruguay"}

\* Raw element texts: empty, whitespace only, plain, padded.
TitleTexts == { <<>>, <<" ">>, <<"a">>, <<" ", "a", " ">>, <<"b">> }

TitleElems ==
    { Elem(t, "h2", None) : t \in TitleTexts }
        \cup { Elem(<<"a">>, "a", "u1"), Elem(<<"a">>, "a", None) }

CompanyElems == { Elem(<<"x">>, "span", None), Elem(<<" ", "y">>, "span", None) }

OtherElems == { Elem(<<"m">>, "span", None) }

LinkElems == { NoElem, Elem(<<>>, "a", "u2") }

\* What a later candidate of a cascade answers when it would match too.
Decoy(f) == Elem(<<"z">>, IF f = "title" THEN "a" ELSE "div", IF f = "title" THEN "u3" ELSE None)

\* The selector list the BuscoJobs extractor has for a field.
SelectorsOf(f) ==
    CASE f = "title"    -> title_selectors
      [] f = "company"  -> company_selectors
      [] f = "location" -> location_selectors
      [] OTHER          -> date_selectors

\* The answers to a field's candidate list: nothing matches; or the
\* candidates before the i-th find nothing, the i-th finds e, and the later
\* ones all find nothing or all match as well.
CascadeResps(f, at, E) ==
    LET n == Len(SelectorsOf(f)) IN
    { [j \in 1..n |-> NoElem] }
        \cup { [j \in 1..n |-> IF j < i THEN NoElem ELSE IF j = i THEN e ELSE l] :
                 i \in at, e \in E, l \in {NoElem, Decoy(f)} }

BuscoCards ==
    [ title    : CascadeResps("title", 1..Len(title_selectors), TitleElems),
      company  : CascadeResps("company", 1..Len(company_selectors), CompanyElems),
      location : CascadeResps("location", {3}, OtherElems),
      date     : CascadeResps("date", {1}, OtherElems),
      link     : LinkElems ]

FixedCards ==
    [ title    : { <<e>> : e \in TitleElems \cup {NoElem} },
      company  : { <<e>> : e \in CompanyElems \cup {NoElem} },
      location : { <<e>> : e \in OtherElems \cup {NoElem} },
      date     : { <<e>> : e \in OtherElems \cup {NoElem} },
      link     : LinkElems ]

CardsFor(source) == IF source = "BuscoJobs Uruguay" THEN BuscoCards ELSE FixedCards

\* The field keys a selector profile of search_jobs_generic may hold.
ProfilesFor(source) == IF source = "Generic" THEN SUBSET AllFields ELSE {AllFields}

-----------------------------------------------------------------------------
(* SpecExtract: one extractor applied to one card.                         *)

NoOutcome == Outcome(<<>>, <<>>)

ExIdle == [pc |-> "idle", source |-> "", card |-> <<>>, selectors |-> {}, out |-> NoOutcome]

\* The pagination loader at rest: not called.
ScIdle == [pc |-> "idle", driver |-> "None", max_results |-> 0, last_height |-> 0,
           loaded_results |-> 0, scrolls |-> 0, exc |-> FALSE]

BatchIdle ==
    /\ pc = "idle" /\ mode = "" /\ keywords = <<>> /\ locations = <<>>
    /\ max_results_per_source = 0 /\ ki = 0 /\ li = 0 /\ si = 0
    /\ driver = "None" /\ created = 0 /\ released = 0
    /\ all_jobs = <<>> /\ unique_jobs = <<>> /\ last = <<>>

batchVars == <<pc, mode, keywords, locations, max_results_per_source, ki, li, si,
               driver, created, released, all_jobs, unique_jobs, last>>

InitExtract ==
    /\ \E source \in Sources : \E card \in CardsFor(source) :
         \E selectors \in ProfilesFor(source) :
           ex = [pc |-> "card", source |-> source, card |-> card,
                 selectors |-> selectors, out |-> NoOutcome]
    /\ se = [pc |-> "idle"]
    /\ sc = ScIdle
    /\ BatchIdle

ExtractCard ==
    /\ ex.pc = "card"
    /\ ex' = [ex EXCEPT !.pc = "done",
                        !.out = Extract(ex.source, ex.card, ex.selectors)]
    /\ UNCHANGED <<se, sc, batchVars>>

NextExtract == ExtractCard

SpecExtract == InitExtract /\ [][NextExtract]_vars

-----------------------------------------------------------------------------
(* The searchers.  A page is what the browser answers during one searcher  *)
(* call: setup (webdriver.Chrome and implicitly_wait, asked only when the  *)
(* bot has no driver), get, the waits, and per card selector queried the   *)
(* find_elements answer (an error, or a list of cards).  A searcher is an  *)
(* operator from the bot's driver and the page to the list it returns,     *)
(* the bot's driver afterwards, the exception that leaves the call ("" for *)
(* none) and the driver calls made, in order.                              *)

Exceptions == {"TimeoutException", "NoSuchElementException", "WebDriverException"}

job_selectors ==
    << "[class*='job']", "[class*='listing']", "[class*='card']",
       "[class*='result']", "article", ".job-item", ".listing-item", ".card-item" >>

\* The state of a searcher's body: exc # "" once a statement has raised.
Run(jobs, drv, made, exc, calls) ==
    [jobs |-> jobs, driver |-> drv, created |-> made, exc |-> exc, calls |-> calls]

\* setup_driver: webdriver.Chrome may fail (no session, self.driver stays
\* None) and implicitly_wait may fail (the session exists and self.driver
\* is set); both are logged and raised again.
setup_driver(answer) ==
    CASE answer = "ok"                 -> Run(<<>>, "open", 1, "", <<<<"setup_driver", 0>>>>)
      [] answer = "session_then_error" -> Run(<<>>, "open", 1, "WebDriverException",
                                              <<<<"setup_driver", 0>>>>)
      [] OTHER                         -> Run(<<>>, "None", 0, "WebDriverException",
                                              <<<<"setup_driver", 0>>>>)

\* "if not self.driver: self.setup_driver()"
EnsureDriver(bot_driver, page) ==
    IF bot_driver = "None" THEN setup_driver(page.setup)
    ELSE Run(<<>>, bot_driver, 0, "", <<>>)

\* The body goes on with step only when nothing has raised so far.
Then(r, call, exc) ==
    IF r.exc # "" THEN r
    ELSE [r EXCEPT !.calls = Append(@, call), !.exc = exc]

\* A card loop that stops at the first card without a result.
RECURSIVE CardLoopStopsAtNone(_, _, _, _, _, _)
CardLoopStopsAtNone(source, selectors, cards, i, max_results, r) ==
    IF i > Len(cards) \/ i > max_results THEN r
    ELSE LET ret == Extract(source, cards[i], selectors).ret
             r2  == [r EXCEPT !.jobs = @ \o ret, !.calls = Append(@, <<"extract", i>>)]
         IN  IF ret = <<>> THEN r2
             ELSE CardLoopStopsAtNone(source, selectors, cards, i + 1, max_results, r2)

\* "for card in job_cards[:max_results]": each card's extraction in its own
\* try block; job_info is appended when it is not None.
RECURSIVE CardLoop(_, _, _, _, _, _)
CardLoop(source, selectors, cards, i, max_results, r) ==
    IF i > Len(cards) \/ i > max_results THEN r
    ELSE CardLoop(source, selectors, cards, i + 1, max_results,
            [r EXCEPT !.jobs = @ \o Extract(source, cards[i], selectors).ret,
                      !.calls = Append(@, <<"extract", i>>)])

\* An exception outside the card loop leaves the try block for the
\* searcher's handler.
ExtractCards(source, selectors, cards, max_results, r) ==
    IF r.exc # "" THEN r
    ELSE CardLoop(source, selectors, cards, 1, max_results, r)

\* A handler that lets everything but a timeout through.
SearcherExceptTimeoutOnly(r) ==
    IF r.exc = "TimeoutException" THEN [r EXCEPT !.exc = ""] ELSE r

\* "except Exception as e: logger.error(...)" and then "return jobs".
SearcherExcept(r) ==
    IF r.exc \in Exceptions THEN [r EXCEPT !.exc = ""] ELSE r

ErrorOf(answer, exc) == IF answer = "ok" THEN "" ELSE exc

\* A body that goes on to the cards after a timeout of the marker wait.
SearchFixedBodyPastTimeout(source, bot_driver, page, max_results) ==
    LET r0 == EnsureDriver(bot_driver, page)
        r1 == Then(r0, <<"get", 0>>, ErrorOf(page.get, "WebDriverException"))
        r2 == Then(r1, <<"wait_marker", 0>>, "")
        r3 == Then(r2, <<"scroll_to_load_more", max_results>>, "")
        r4 == Then(r3, <<"find_elements", 1>>,
                   IF page.cardsets[1].error THEN "WebDriverException" ELSE "")
    IN  ExtractCards(source, AllFields, page.cardsets[1].cards, max_results, r4)

\* search_jobs_linkedin and search_jobs_indeed: get, wait for the marker,
\* scroll, find the cards, extract.
SearchFixedBody(source, bot_driver, page, max_results) ==
    LET r0 == EnsureDriver(bot_driver, page)
        r1 == Then(r0, <<"get", 0>>, ErrorOf(page.get, "WebDriverException"))
        r2 == Then(r1, <<"wait_marker", 0>>, ErrorOf(page.marker, "TimeoutException"))
        r3 == Then(r2, <<"scroll_to_load_more", max_results>>, "")
        r4 == Then(r3, <<"find_elements", 1>>,
                   IF page.cardsets[1].error THEN "WebDriverException" ELSE "")
    IN  ExtractCards(source, AllFields, page.cardsets[1].cards, max_results, r4)

search_jobs_linkedin(bot_driver, page, max_results) ==
    SearcherExcept(SearchFixedBody("LinkedIn", bot_driver, page, max_results))

search_jobs_indeed(bot_driver, page, max_results) ==
    SearcherExcept(SearchFixedBody("Indeed", bot_driver, page, max_results))

\* search_jobs_generic: get, fill the search input and wait for the
\* listings when the profile names them, find the cards, extract.
SearchGenericBody(bot_driver, page, search_selectors, max_results) ==
    LET r0 == EnsureDriver(bot_driver, page)
        r1 == Then(r0, <<"get", 0>>, ErrorOf(page.get, "WebDriverException"))
        r2 == IF "search_input" \in search_selectors
              THEN Then(r1, <<"wait_search_input", 0>>,
                        ErrorOf(page.search_input, "TimeoutException"))
              ELSE r1
        r3 == IF "job_listings" \in search_selectors
              THEN Then(r2, <<"wait_marker", 0>>, ErrorOf(page.marker, "TimeoutException"))
              ELSE r2
        r4 == Then(r3, <<"find_elements", 1>>,
                   IF page.cardsets[1].error THEN "WebDriverException" ELSE "")
    IN  ExtractCards("Generic", search_selectors, page.cardsets[1].cards, max_results, r4)

search_jobs_generic(bot_driver, page, search_selectors, max_results) ==
    SearcherExcept(SearchGenericBody(bot_driver, page, search_selectors, max_results))

\* A selector loop without the break: every selector is queried and the
\* last one that finds cards gives them.
RECURSIVE CardCascadeNoBreak(_, _)
CardCascadeNoBreak(answers, i) ==
    IF i > Len(answers) THEN 0
    ELSE LET rest == CardCascadeNoBreak(answers, i + 1) IN
         IF rest # 0 THEN rest
         ELSE IF ~answers[i].error /\ answers[i].cards # <<>> THEN i ELSE 0

\* "Try multiple selectors for job cards": the first selector whose query
\* returns a non-empty list gives the cards; a query that raises is skipped.
RECURSIVE CardCascadeFrom(_, _)
CardCascadeFrom(answers, i) ==
    IF i > Len(answers) THEN 0
    ELSE IF ~answers[i].error /\ answers[i].cards # <<>> THEN i
    ELSE CardCascadeFrom(answers, i + 1)

CardCascadeCalls(answers, hit) ==
    [j \in 1..(IF hit = 0 THEN Len(answers) ELSE hit) |-> <<"find_elements", j>>]

\* search_jobs_buscojobs_uy.  The search form: a timeout of its wait is
\* caught and the direct URL is loaded instead; a missing location input
\* is caught.  The wait for the listings: a timeout is caught and the
\* searcher goes on.
SearchBuscoBody(bot_driver, page, location, max_results) ==
    LET r0 == EnsureDriver(bot_driver, page)
        r1 == Then(r0, <<"get", 0>>, ErrorOf(page.get, "WebDriverException"))
        r2 == CASE page.form = "ok" ->
                     IF location # ""
                     THEN Then(Then(r1, <<"wait_search_input", 0>>, ""),
                               <<"find_location_input", 0>>, "")
                     ELSE Then(r1, <<"wait_search_input", 0>>, "")
                [] page.form = "timeout" ->
                     Then(Then(r1, <<"wait_search_input", 0>>, ""),
                          <<"get", 1>>, ErrorOf(page.direct_get, "WebDriverException"))
                [] OTHER -> Then(r1, <<"wait_search_input", 0>>, "WebDriverException")
        r3 == Then(r2, <<"wait_marker", 0>>,
                   IF page.marker = "error" THEN "WebDriverException" ELSE "")
        r4 == Then(r3, <<"scroll_to_load_more", max_results>>, "")
        hit == CardCascadeFrom(page.cardsets, 1)
        r5 == IF r4.exc # "" THEN r4
              ELSE [r4 EXCEPT !.calls = @ \o CardCascadeCalls(page.cardsets, hit)]
    IN  ExtractCards("BuscoJobs Uruguay", AllFields,
                     IF hit = 0 THEN <<>> ELSE page.cardsets[hit].cards, max_results, r5)

search_jobs_buscojobs_uy(bot_driver, page, location, max_results) ==
    SearcherExcept(SearchBuscoBody(bot_driver, page, location, max_results))

Range(q) == { q[i] : i \in 1..Len(q) }

Least(S) == CHOOSE i \in S : \A j \in S : i <= j

Min(a, b) == IF a <= b THEN a ELSE b

\* The cards the searcher iterates over: the answer to its card selector;
\* for BuscoJobs the first answer of job_selectors that holds cards.
CardsFound(source, page) ==
    IF source = "BuscoJobs Uruguay"
    THEN LET ok == { j \in 1..Len(page.cardsets) :
                       ~page.cardsets[j].error /\ page.cardsets[j].cards # <<>> }
         IN  IF ok = {} THEN <<>> ELSE page.cardsets[Least(ok)].cards
    ELSE page.cardsets[1].cards

-----------------------------------------------------------------------------
(* SpecSearch: one searcher call, on a bot with or without a driver.       *)

\* The most cards a page holds.
MaxCards == 3

\* The largest max_results a caller passes (at least 1).
MaxResults == 2

Page(setup, get, form, direct_get, search_input, marker, cardsets) ==
    [setup |-> setup, get |-> get, form |-> form, direct_get |-> direct_get,
     search_input |-> search_input, marker |-> marker, cardsets |-> cardsets]

Answer(error, cards) == [error |-> error, cards |-> cards]

SeqsUpTo(S, n) == UNION { [1..k -> S] : k \in 0..n }

FixedCard(t, c) ==
    [title |-> <<t>>, company |-> <<c>>, location |-> <<Elem(<<"m">>, "span", None)>>,
     date |-> <<Elem(<<"d">>, "span", None)>>, link |-> NoElem]

\* Cards of a fixed-schema page: complete; complete with a blank title;
\* without a title element; without a company element; a second complete one.
SearchFixedCards ==
    { FixedCard(Elem(<<"a">>, "a", "u1"), Elem(<<"x">>, "span", None)),
      FixedCard(Elem(<<" ">>, "h2", None), Elem(<<"x">>, "span", None)),
      FixedCard(NoElem, Elem(<<"x">>, "span", None)),
      FixedCard(Elem(<<"b">>, "h2", None), NoElem),
      FixedCard(Elem(<<"b">>, "h2", None), Elem(<<" ", "y">>, "span", None)) }

\* The answers to a candidate list when only the i-th candidate finds e.
Only(f, i, e) == [j \in 1..Len(SelectorsOf(f)) |-> IF j = i THEN e ELSE NoElem]

BuscoCard(t, c) ==
    [title |-> t, company |-> c, location |-> Only("location", 0, NoElem),
     date |-> Only("date", 1, Elem(<<"m">>, "span", None)), link |-> NoElem]

\* Cards of a BuscoJobs page: title and company; title only; no title
\* element; a blank title; a title that is a link.
SearchBuscoCards ==
    { BuscoCard(Only("title", 2, Elem(<<"a">>, "h2", None)),
                Only("company", 1, Elem(<<"x">>, "span", None))),
      BuscoCard(Only("title", 5, Elem(<<"b">>, "div", None)),
                Only("company", 0, NoElem)),
      BuscoCard(Only("title", 0, NoElem),
                Only("company", 1, Elem(<<"x">>, "span", None))),
      BuscoCard(Only("title", 1, Elem(<<" ">>, "h1", None)),
                Only("company", 1, Elem(<<"x">>, "span", None))),
      BuscoCard(Only("title", 8, Elem(<<"b">>, "a", "u1")),
                Only("company", 2, Elem(<<" ", "y">>, "span", None))) }

\* What setup answers; asked only when the bot has no driver yet.
SetupAnswers(bot_driver) ==
    IF bot_driver = "None" THEN {"ok", "session_then_error", "no_session"} ELSE {"ok"}

\* The pages on which setup fails: nothing else is asked.
SetupFailurePages(bot_driver) ==
    { Page(a, "ok", "ok", "ok", "ok", "ok", <<Answer(FALSE, <<>>)>>) :
        a \in SetupAnswers(bot_driver) \ {"ok"} }

\* Pages of LinkedIn, Indeed and a generic portal: the navigation fails, a
\* wait times out, the card query fails, or the cards are found.
FixedPages(bot_driver, cardlists) ==
    SetupFailurePages(bot_driver)
        \cup { Page("ok", "error", "ok", "ok", "ok", "ok", <<Answer(FALSE, <<>>)>>),
               Page("ok", "ok", "ok", "ok", "timeout", "ok", <<Answer(FALSE, <<>>)>>),
               Page("ok", "ok", "ok", "ok", "ok", "ok", <<Answer(TRUE, <<>>)>>) }
        \cup { Page("ok", "ok", "ok", "ok", "ok", "timeout", <<Answer(FALSE, c)>>) :
                 c \in cardlists }
        \cup { Page("ok", "ok", "ok", "ok", "ok", "ok", <<Answer(FALSE, c)>>) :
                 c \in cardlists }

\* The answers to job_selectors: the selectors before the at-th find
\* nothing or fail, the at-th finds cards, the later ones find nothing or
\* cards of their own.
CardsetAnswers(at, cards, before, after) ==
    [j \in 1..Len(job_selectors) |->
        IF j < at THEN before ELSE IF j = at THEN Answer(FALSE, cards) ELSE after]

BuscoCardsets(cardlists) ==
    { [j \in 1..Len(job_selectors) |-> b] :
        b \in {Answer(FALSE, <<>>), Answer(TRUE, <<>>)} }
      \cup
    { CardsetAnswers(at, c, b, a) :
        at \in {1, 5}, c \in cardlists,
        b \in {Answer(FALSE, <<>>), Answer(TRUE, <<>>)},
        a \in {Answer(FALSE, <<>>),
               Answer(FALSE, <<BuscoCard(Only("title", 1, Elem(<<"z">>, "h1", None)),
                                         Only("company", 0, NoElem))>>)} }

\* Pages of BuscoJobs: the search form is there, or its wait times out and
\* the direct URL is loaded, or fails; the wait for the listings succeeds,
\* times out or fails.
BuscoPages(bot_driver, cardlists) ==
    SetupFailurePages(bot_driver)
        \cup { Page("ok", "error", "ok", "ok", "ok", "ok", <<Answer(FALSE, <<>>)>>),
               Page("ok", "ok", "error", "ok", "ok", "ok", <<Answer(FALSE, <<>>)>>),
               Page("ok", "ok", "timeout", "error", "ok", "ok", <<Answer(FALSE, <<>>)>>),
               Page("ok", "ok", "ok", "ok", "ok", "error", <<Answer(FALSE, <<>>)>>) }
        \cup { Page("ok", "ok", form, "ok", "ok", marker, cs) :
                 form \in {"ok", "timeout"}, marker \in {"ok", "timeout"},
                 cs \in BuscoCardsets(cardlists) }

\* Selector profiles passed to search_jobs_generic.
GenericProfiles ==
    { AllFields \cup {"search_input", "job_listings"},
      AllFields \cup {"job_listings"},
      {"title"},
      {"company", "job_listings"},
      {} }

Locations == {"", "Montevideo"}

NoPage == Page("", "", "", "", "", "", <<>>)

NoRun == Run(<<>>, "None", 0, "", <<>>)

InitSearch ==
    /\ \E d \in {"None", "open"} : \E n \in 1..MaxResults :
         se = [pc |-> "call", source |-> "", driver |-> d, location |-> "",
               max_results |-> n, selectors |-> {}, page |-> NoPage, res |-> NoRun]
    /\ ex = ExIdle
    /\ sc = ScIdle
    /\ BatchIdle

Returned(source, location, selectors, page, res) ==
    /\ se' = [se EXCEPT !.pc = "returned", !.source = source, !.location = location,
                        !.selectors = selectors, !.page = page, !.res = res]
    /\ UNCHANGED <<ex, sc, batchVars>>

CallLinkedin ==
    /\ se.pc = "call"
    /\ \E page \in FixedPages(se.driver, SeqsUpTo(SearchFixedCards, MaxCards)) :
         Returned("LinkedIn", "", AllFields, page,
                  search_jobs_linkedin(se.driver, page, se.max_results))

CallIndeed ==
    /\ se.pc = "call"
    /\ \E page \in FixedPages(se.driver, SeqsUpTo(SearchFixedCards, MaxCards)) :
         Returned("Indeed", "", AllFields, page,
                  search_jobs_indeed(se.driver, page, se.max_results))

CallGeneric ==
    /\ se.pc = "call"
    /\ \E page \in FixedPages(se.driver, SeqsUpTo(SearchFixedCards, MaxCards)) :
         \E search_selectors \in GenericProfiles :
           Returned("Generic", "", search_selectors, page,
                    search_jobs_generic(se.driver, page, search_selectors, se.max_results))

CallBuscojobs ==
    /\ se.pc = "call"
    /\ \E page \in BuscoPages(se.driver, SeqsUpTo(SearchBuscoCards, MaxCards) \ {<<>>}) :
         \E location \in Locations :
           Returned("BuscoJobs Uruguay", location, AllFields, page,
                    search_jobs_buscojobs_uy(se.driver, page, location, se.max_results))

NextSearch == CallLinkedin \/ CallIndeed \/ CallGeneric \/ CallBuscojobs

SpecSearch == InitSearch /\ [][NextSearch]_vars

-----------------------------------------------------------------------------
(* SpecScroll: one call of _scroll_to_load_more, statement by statement.   *)
(* The browser answers each sample of the loop: the number of result       *)
(* elements and the page height, or an error of one of the driver calls.   *)
(* sc.scrolls counts the scrollTo calls that were made, up to MaxScrolls   *)
(* ("MaxScrolls or more").                                                 *)

\* The page heights the browser reports are 1..MaxHeight.
MaxHeight == 3

\* The most result elements the page holds.
MaxCount == 3

\* The scrollTo calls are counted up to this number.
MaxScrolls == 3

Heights == 1..MaxHeight

Counts == 0..MaxCount

Inc(n) == Min(n + 1, MaxScrolls)

\* The driver call of an iteration that raises; "" when none does.
ScrollFailures == {"", "scrollTo", "find_elements", "scrollHeight"}

\* A loop body that never leaves the loop on the heights.
AfterSampleNoBreak(last_height, new_height) == "test"

\* "if new_height == last_height: break", else back to the loop condition.
AfterSample(last_height, new_height) ==
    IF new_height = last_height THEN "done" ELSE "test"

\* "except Exception as e: logger.warning(...)": the call returns.
ScrollExcept(s) == [s EXCEPT !.pc = "done", !.exc = TRUE]

InitScroll ==
    /\ \E d \in {"None", "open"} : \E n \in 1..MaxResults :
         sc = [pc |-> "start", driver |-> d, max_results |-> n, last_height |-> 0,
               loaded_results |-> 0, scrolls |-> 0, exc |-> FALSE]
    /\ ex = ExIdle
    /\ se = [pc |-> "idle"]
    /\ BatchIdle

\* "if not self.driver: return"; else the first height sample and
\* loaded_results = 0.
ScrollStart ==
    /\ sc.pc = "start"
    /\ \/ sc.driver = "None" /\ sc' = [sc EXCEPT !.pc = "done"]
       \/ sc.driver # "None" /\ sc' = ScrollExcept(sc)
       \/ /\ sc.driver # "None"
          /\ \E h \in Heights :
               sc' = [sc EXCEPT !.pc = "test", !.last_height = h, !.loaded_results = 0]
    /\ UNCHANGED <<ex, se, batchVars>>

\* One pass of the loop body: scroll, sleep, count the results, sample the
\* height, compare it with the last one.
ScrollIterate ==
    /\ sc.pc = "test"
    /\ sc.loaded_results < sc.max_results
    /\ \E fails \in ScrollFailures : \E current_results \in Counts : \E new_height \in Heights :
         sc' = CASE fails = "scrollTo" -> ScrollExcept(sc)
                 [] fails = "find_elements" ->
                      ScrollExcept([sc EXCEPT !.scrolls = Inc(@)])
                 [] fails = "scrollHeight" ->
                      ScrollExcept([sc EXCEPT !.scrolls = Inc(@),
                                              !.loaded_results = current_results])
                 [] OTHER ->
                      [sc EXCEPT !.pc = AfterSample(sc.last_height, new_height),
                                 !.scrolls = Inc(@),
                                 !.loaded_results = current_results,
                                 !.last_height = new_height]
    /\ UNCHANGED <<ex, se, batchVars>>

\* "while loaded_results < max_results" is false: the loop ends.
ScrollExit ==
    /\ sc.pc = "test"
    /\ ~(sc.loaded_results < sc.max_results)
    /\ sc' = [sc EXCEPT !.pc = "done"]
    /\ UNCHANGED <<ex, se, batchVars>>

NextScroll == ScrollStart \/ ScrollIterate \/ ScrollExit

SpecScroll == InitScroll /\ [][NextScroll]_vars

\* The loader is sequential code: its next statement is always executed.
SpecScrollLive == SpecScroll /\ WF_vars(NextScroll)

-----------------------------------------------------------------------------
(* Spec: one run of search_jobs_multiple_sources or of                     *)
(* search_jobs_buscojobs_only.  pc is the position in the function: in the *)
(* loops ("loop", with ki, li the keyword and location indices and si the  *)
(* next statement of the loop body), in the finally block, at the dedupe   *)
(* after it, returned ("done") or left by an exception ("raised").         *)

\* The most keywords a caller passes.
MaxKeywords == 2

\* The most postings a batch run accumulates: a page lists no more cards
\* than are missing to it.
MaxJobs == 3

KeywordNames == <<"Desarrollador Python", "Data Scientist", "Ingeniero de Software">>

\* locations=None stands for [""]; otherwise the caller's list.
LocationLists == { <<"">>, <<"Montevideo", "Uruguay">> }

Modes == {"multiple_sources", "buscojobs_only"}

\* A loop body that queries Indeed before LinkedIn.
BodyIndeedFirst(m) ==
    IF m = "multiple_sources"
    THEN <<"Indeed", "LinkedIn", "BuscoJobs Uruguay", "sleep">>
    ELSE <<"BuscoJobs Uruguay", "sleep">>

\* The loop body's statements, by si: the searcher calls, then time.sleep(2).
Body(m) ==
    IF m = "multiple_sources"
    THEN <<"LinkedIn", "Indeed", "BuscoJobs Uruguay", "sleep">>
    ELSE <<"BuscoJobs Uruguay", "sleep">>

Stmt == Body(mode)[si]

NoCall == [source |-> "", driver |-> "None", page |-> NoPage, res |-> NoRun]

\* Cards of the pages a batch visits: same title, two companies.
BatchCards(source) ==
    IF source = "BuscoJobs Uruguay"
    THEN { BuscoCard(Only("title", 2, Elem(<<"a">>, "h2", None)),
                     Only("company", 1, Elem(<<"x">>, "span", None))),
           BuscoCard(Only("title", 8, Elem(<<"a">>, "a", "u1")),
                     Only("company", 2, Elem(<<" ", "y">>, "span", None))) }
    ELSE { FixedCard(Elem(<<"a">>, "a", "u1"), Elem(<<"x">>, "span", None)),
           FixedCard(Elem(<<" ", "a">>, "h2", None), Elem(<<"y">>, "span", None)) }

BatchCardLists(source) ==
    SeqsUpTo(BatchCards(source), Min(MaxCards, MaxJobs - Len(all_jobs)))

BatchPages(source) ==
    IF source = "BuscoJobs Uruguay"
    THEN SetupFailurePages(driver)
            \cup { Page("ok", "error", "ok", "ok", "ok", "ok", <<Answer(FALSE, <<>>)>>) }
            \cup { Page("ok", "ok", "ok", "ok", "ok", marker,
                        CardsetAnswers(5, c, Answer(FALSE, <<>>), Answer(FALSE, <<>>))) :
                     marker \in {"ok", "timeout"}, c \in BatchCardLists(source) }
    ELSE SetupFailurePages(driver)
            \cup { Page("ok", "error", "ok", "ok", "ok", "ok", <<Answer(FALSE, <<>>)>>) }
            \cup { Page("ok", "ok", "ok", "ok", "ok", marker, <<Answer(FALSE, c)>>) :
                     marker \in {"ok", "timeout"}, c \in BatchCardLists(source) }

Init ==
    /\ mode \in Modes
    /\ \E n \in 1..MaxKeywords : keywords = SubSeq(KeywordNames, 1, n)
    /\ locations \in LocationLists
    /\ max_results_per_source = MaxResults
    /\ pc = "loop" /\ ki = 1 /\ li = 1 /\ si = 1
    /\ driver = "None" /\ created = 0 /\ released = 0
    /\ all_jobs = <<>> /\ unique_jobs = <<>>
    /\ last = NoCall
    /\ ex = ExIdle
    /\ se = [pc |-> "idle"]
    /\ sc = ScIdle

\* "x_jobs = bot.search_jobs_x(...); all_jobs.extend(x_jobs)": the bot keeps
\* the driver; an exception leaving the searcher leaves the loops for the
\* finally block.
AfterCall(source, page, res) ==
    /\ last' = [source |-> source, driver |-> driver, page |-> page, res |-> res]
    /\ driver' = res.driver
    /\ created' = created + res.created
    /\ IF res.exc = ""
       THEN /\ all_jobs' = all_jobs \o res.jobs
            /\ si' = si + 1
            /\ pc' = pc
       ELSE /\ pc' = "finally_raising"
            /\ UNCHANGED <<all_jobs, si>>
    /\ UNCHANGED <<ex, se, sc, mode, keywords, locations, max_results_per_source,
                   ki, li, released, unique_jobs>>

CallSearchLinkedin ==
    /\ pc = "loop" /\ Stmt = "LinkedIn"
    /\ \E page \in BatchPages("LinkedIn") :
         AfterCall("LinkedIn", page,
                   search_jobs_linkedin(driver, page, max_results_per_source))

CallSearchIndeed ==
    /\ pc = "loop" /\ Stmt = "Indeed"
    /\ \E page \in BatchPages("Indeed") :
         AfterCall("Indeed", page,
                   search_jobs_indeed(driver, page, max_results_per_source))

CallSearchBuscojobs ==
    /\ pc = "loop" /\ Stmt = "BuscoJobs Uruguay"
    /\ \E page \in BatchPages("BuscoJobs Uruguay") :
         AfterCall("BuscoJobs Uruguay", page,
                   search_jobs_buscojobs_uy(driver, page, locations[li],
                                            max_results_per_source))

\* time.sleep(2) ends and the loops go on: the next location, the next
\* keyword, or the end of the loops.
Sleep ==
    /\ pc = "loop" /\ Stmt = "sleep"
    /\ si' = 1
    /\ IF li < Len(locations)
       THEN li' = li + 1 /\ UNCHANGED <<ki, pc>>
       ELSE /\ li' = 1
            /\ ki' = ki + 1
            /\ pc' = IF ki < Len(keywords) THEN "loop" ELSE "finally"
    /\ UNCHANGED <<ex, se, sc, mode, keywords, locations, max_results_per_source,
                   driver, created, released, all_jobs, unique_jobs, last>>

\* time.sleep(2) is interrupted (KeyboardInterrupt): the exception leaves
\* the loops.
Interrupt ==
    /\ pc = "loop" /\ Stmt = "sleep"
    /\ pc' = "finally_raising"
    /\ UNCHANGED <<ex, se, sc, mode, keywords, locations, max_results_per_source,
                   ki, li, si, driver, created, released, all_jobs, unique_jobs,
                   last>>

\* A close that leaves the session open.
CloseNothing(d) == [driver |-> d, quits |-> 0]

\* JobSearchBot.close: "if self.driver: self.driver.quit()".
close(d) ==
    IF d # "None" THEN [driver |-> "quit", quits |-> 1] ELSE [driver |-> d, quits |-> 0]

\* "finally: bot.close()", then on to the dedupe, or on with the exception.
Finally ==
    /\ pc \in {"finally", "finally_raising"}
    /\ driver' = close(driver).driver
    /\ released' = released + close(driver).quits
    /\ pc' = IF pc = "finally" THEN "dedupe" ELSE "raised"
    /\ UNCHANGED <<ex, se, sc, mode, keywords, locations, max_results_per_source,
                   ki, li, si, created, all_jobs, unique_jobs, last>>

\* A key that ignores the company.
TitleOnlyKey(job) == <<job.title, <<>>>>

\* job_key = (job.get('title', ''), job.get('company', ''))
JobKey(job) == <<job.title, job.company>>

\* "for job in all_jobs: if job_key not in seen: seen.add(job_key);
\* unique_jobs.append(job)"
RECURSIVE DedupeFrom(_, _, _, _)
DedupeFrom(jobs, i, seen, unique_so_far) ==
    IF i > Len(jobs) THEN unique_so_far
    ELSE IF JobKey(jobs[i]) \notin seen
    THEN DedupeFrom(jobs, i + 1, seen \cup {JobKey(jobs[i])},
                    Append(unique_so_far, jobs[i]))
    ELSE DedupeFrom(jobs, i + 1, seen, unique_so_far)

\* "Remove duplicates based on title and company" and return unique_jobs.
RemoveDuplicates ==
    /\ pc = "dedupe"
    /\ unique_jobs' = DedupeFrom(all_jobs, 1, {}, <<>>)
    /\ pc' = "done"
    /\ UNCHANGED <<ex, se, sc, mode, keywords, locations, max_results_per_source,
                   ki, li, si, driver, created, released, all_jobs, last>>

Next ==
    \/ CallSearchLinkedin
    \/ CallSearchIndeed
    \/ CallSearchBuscojobs
    \/ Sleep
    \/ Interrupt
    \/ Finally
    \/ RemoveDuplicates

Spec == Init /\ [][Next]_vars

-----------------------------------------------------------------------------
(* Claims about the extractors, under SpecExtract.                         *)

ExDone == ex.pc = "done"

ExEmitted == ExDone /\ ex.out.ret # <<>>

\* The indices of the candidates of field f that find an element.
Matches(card, f) == { i \in 1..Len(card[f]) : card[f][i].found }

\* The find_element calls made for field f, in the order made.
ProbesOf(probes, f) ==
    LET IsF(p) == p[1] = f IN SelectSeq(probes, IsF)

\* The extractor looks the field up: the generic one only with a selector.
LooksUp(f) == ex.source # "Generic" \/ f \in ex.selectors

(* C1: every posting an extractor emits has a non-empty title.  As         *)
(* claimed; the fixed-schema and generic extractors violate it.            *)
C1_EmittedTitleNonEmpty ==
    ExEmitted => ex.out.ret[1].title # <<>>

(* C2: a card in which no title element can be resolved yields None from   *)
(* every extractor.  As claimed; the generic extractor with a profile that *)
(* has no title selector violates it.                                      *)
C2_NoTitleElementNoPosting ==
    (ExDone /\ (Matches(ex.card, "title") = {} \/ ~LooksUp("title")))
        => ex.out.ret = <<>>

(* C3: a card whose title resolves to non-empty text and whose company,    *)
(* location and date elements are all absent yields a posting with that    *)
(* title and empty company, location and posted_date.  As claimed; the     *)
(* fixed-schema extractors return None instead.                            *)
C3_TitleOnlyCardEmitted ==
    (/\ ExDone
     /\ LooksUp("title")
     /\ Matches(ex.card, "title") # {}
     /\ Strip(ex.card.title[Least(Matches(ex.card, "title"))].text) # <<>>
     /\ \A f \in {"company", "location", "date"} : Matches(ex.card, f) = {})
        => /\ ex.out.ret # <<>>
           /\ ex.out.ret[1].title
                = Strip(ex.card.title[Least(Matches(ex.card, "title"))].text)
           /\ ex.out.ret[1].company = <<>>
           /\ ex.out.ret[1].location = <<>>
           /\ ex.out.ret[1].posted_date = <<>>

(* C10: in the BuscoJobs extractor each field's candidates are tried in    *)
(* list order up to and including the first that finds an element, and no  *)
(* further; that element's stripped text is the field's value; when no     *)
(* candidate finds anything the whole list is tried and the field is left  *)
(* empty.                                                                  *)
C10_FirstMatchWins ==
    (ExDone /\ ex.source = "BuscoJobs Uruguay") =>
        \A f \in AllFields :
            LET m     == Matches(ex.card, f)
                n     == Len(ex.card[f])
                upto  == IF m = {} THEN n ELSE Least(m)
                value == IF m = {} THEN <<>> ELSE Strip(ex.card[f][Least(m)].text)
            IN  /\ ProbesOf(ex.out.probes, f) = [j \in 1..upto |-> <<f, j>>]
                /\ ex.out.ret # <<>> => ex.out.ret[1][KeyOf(f)] = value

\* A card whose title is found by the third candidate only after two misses,
\* with every later candidate matching too, and a company found likewise.
C10_Witness ==
    /\ ExEmitted
    /\ ex.source = "BuscoJobs Uruguay"
    /\ Least(Matches(ex.card, "title") \cup {99}) = 3
    /\ Cardinality(Matches(ex.card, "title")) = Len(title_selectors) - 2
    /\ ex.out.ret[1].title = <<"b">>
    /\ Least(Matches(ex.card, "company") \cup {99}) = 2
    /\ Cardinality(Matches(ex.card, "company")) > 1
    /\ ex.out.ret[1].company = <<"y">>

\* job_url as the title loop of the BuscoJobs extractor leaves it.
UrlAfterTitle(card) ==
    LET m == Matches(card, "title") IN
    IF m = {} THEN EmptyStr
    ELSE LET e == card.title[Least(m)] IN
         IF e.tag = "a" THEN GetHref(e) ELSE EmptyStr

\* The extractor asked the card for "a[href]".
LinkProbed(probes) == <<"link", 1>> \in Range(probes)

(* C11: in the BuscoJobs extractor, when the resolved title element is a   *)
(* hyperlink with a link target, the link search is not made and job_url   *)
(* is that target, whatever other link the card holds; the link search is  *)
(* made, once and after every field lookup, exactly when the title step    *)
(* left job_url unset, and then job_url is the target of the first link of *)
(* the card, or stays as it was when the card has no link.                 *)
C11_TitleLinkBeatsBackfill ==
    (ExDone /\ ex.source = "BuscoJobs Uruguay") =>
        LET u == UrlAfterTitle(ex.card)
            p == ex.out.probes
        IN  /\ LinkProbed(p) <=> Falsy(u)
            /\ LinkProbed(p) =>
                  /\ p[Len(p)] = <<"link", 1>>
                  /\ Len(ProbesOf(p, "link")) = 1
            /\ ex.out.ret # <<>> =>
                  ex.out.ret[1].job_url =
                      IF ~Falsy(u) THEN u
                      ELSE IF ex.card.link.found THEN GetHref(ex.card.link)
                      ELSE u

\* A posting whose title is a link to u1, from a card that holds another
\* link, to u2: job_url is u1 and the card was not asked for a link.
C11_Witness ==
    /\ ExEmitted
    /\ ex.source = "BuscoJobs Uruguay"
    /\ UrlAfterTitle(ex.card) = "u1"
    /\ ex.card.link.found /\ GetHref(ex.card.link) = "u2"
    /\ ex.out.ret[1].job_url = "u1"
    /\ ~LinkProbed(ex.out.probes)

\* job_url as the field lookups of the extractor in use leave it.
UrlAfterFields ==
    IF ex.source = "BuscoJobs Uruguay" THEN UrlAfterTitle(ex.card)
    ELSE IF LooksUp("title") /\ ex.card.title[1].found THEN GetHref(ex.card.title[1])
    ELSE EmptyStr

(* C14, as claimed: every extractor, after its field lookups, asks the     *)
(* card for its first link exactly when job_url is still unset, and a      *)
(* posting it emits then has that link's target as job_url.  Only the      *)
(* BuscoJobs extractor does; the others leave job_url unset.               *)
C14_BackfillEverySource ==
    ExEmitted =>
        /\ LinkProbed(ex.out.probes) <=> Falsy(UrlAfterFields)
        /\ (Falsy(UrlAfterFields) /\ ex.card.link.found)
              => ex.out.ret[1].job_url = GetHref(ex.card.link)

-----------------------------------------------------------------------------
(* Claims about one searcher call, under SpecSearch.                       *)

SeReturned == se.pc = "returned"

\* The postings of the first k cards, in page order, cards without a
\* result left out.
RECURSIVE Emitted(_, _, _, _)
Emitted(source, selectors, cards, k) ==
    IF k = 0 THEN <<>>
    ELSE Emitted(source, selectors, cards, k - 1)
            \o Extract(source, cards[k], selectors).ret

\* A step of the call before the card loop fails in a way the searcher does
\* not recover from locally.
StepFailed(source, bot_driver, selectors, page) ==
    \/ bot_driver = "None" /\ page.setup # "ok"
    \/ page.get = "error"
    \/ /\ source \in {"LinkedIn", "Indeed"}
       /\ page.marker = "timeout" \/ page.cardsets[1].error
    \/ /\ source = "Generic"
       /\ \/ "search_input" \in selectors /\ page.search_input = "timeout"
          \/ "job_listings" \in selectors /\ page.marker = "timeout"
          \/ page.cardsets[1].error
    \/ /\ source = "BuscoJobs Uruguay"
       /\ \/ page.form = "error"
          \/ page.form = "timeout" /\ page.direct_get = "error"
          \/ page.marker = "error"

SeStepFailed == StepFailed(se.source, se.driver, se.selectors, se.page)

ExtractCalls(calls) ==
    LET IsExtract(c) == c[1] = "extract" IN SelectSeq(calls, IsExtract)

(* C5: a searcher call never ends in an exception: whatever step fails, it *)
(* returns the list of the postings of the cards extracted so far, which   *)
(* is empty when a step before the card loop failed.                       *)
C5_SearcherNeverRaises ==
    SeReturned =>
        /\ se.res.exc = ""
        /\ se.res.jobs = Emitted(se.source, se.selectors, CardsFound(se.source, se.page),
                                 Len(ExtractCalls(se.res.calls)))
        /\ SeStepFailed => se.res.jobs = <<>>

\* Calls that returned an empty list after a failed navigation, after a
\* failed driver setup and after a failed card query.
C5_Witness ==
    /\ SeReturned
    /\ se.res.exc = ""
    /\ se.res.jobs = <<>>
    /\ \/ se.page.get = "error"
       \/ se.driver = "None" /\ se.page.setup = "no_session"
       \/ se.page.cardsets[1].error /\ se.source = "Indeed"

(* C9: a searcher that reaches its card loop extracts the first            *)
(* min(max_results, number of cards found) cards, each once and in page    *)
(* order, whether or not an earlier card gave a result; the list returned  *)
(* holds the postings of exactly those cards, in that order, so at most    *)
(* max_results of them.                                                    *)
C9_FirstMaxResultsCards ==
    (SeReturned /\ ~SeStepFailed) =>
        LET cards == CardsFound(se.source, se.page)
            k     == Min(se.max_results, Len(cards))
        IN  /\ ExtractCalls(se.res.calls) = [i \in 1..k |-> <<"extract", i>>]
            /\ se.res.jobs = Emitted(se.source, se.selectors, cards, k)
            /\ Len(se.res.jobs) <= se.max_results

\* More cards than max_results, the first without a result, the second
\* with one: the second card's posting is the list returned.
C9_Witness ==
    /\ SeReturned /\ ~SeStepFailed
    /\ se.max_results = 2
    /\ Len(CardsFound(se.source, se.page)) = 3
    /\ Extract(se.source, CardsFound(se.source, se.page)[1], se.selectors).ret = <<>>
    /\ Extract(se.source, CardsFound(se.source, se.page)[3], se.selectors).ret # <<>>
    /\ Len(se.res.jobs) = 1
    /\ se.res.jobs = Extract(se.source, CardsFound(se.source, se.page)[2], se.selectors).ret

\* The positions of the calls named name in a call log.
CallsOf(calls, name) == { i \in 1..Len(calls) : calls[i][1] = name }

(* C15, as claimed: in every searcher call that queries the card elements, *)
(* the navigation, the marker wait and the pagination loader called with   *)
(* the caller's max_results have been made before, in that order.  The     *)
(* generic searcher never calls the pagination loader.                     *)
C15_ScrollBeforeCards ==
    (SeReturned /\ CallsOf(se.res.calls, "find_elements") # {}) =>
        LET calls == se.res.calls
            c     == Least(CallsOf(calls, "find_elements"))
        IN  \E g, w, s \in 1..Len(calls) :
                /\ g < w /\ w < s /\ s < c
                /\ calls[g] = <<"get", 0>>
                /\ calls[w] = <<"wait_marker", 0>>
                /\ calls[s] = <<"scroll_to_load_more", se.max_results>>

\* The card queries of a call log, in the order made.
FindCalls(calls) ==
    LET IsFind(c) == c[1] = "find_elements" IN SelectSeq(calls, IsFind)

\* The job_selectors whose query answers with at least one card.
CardMatches(page) ==
    { j \in 1..Len(page.cardsets) :
        ~page.cardsets[j].error /\ page.cardsets[j].cards # <<>> }

(* C16: a BuscoJobs searcher call that reaches its card selectors queries  *)
(* them in list order up to and including the first one that answers with  *)
(* at least one card, and no further; a selector whose query fails or      *)
(* finds nothing is passed over; the cards extracted are those of that     *)
(* first selector; when no selector finds a card all of them are queried   *)
(* and the call returns an empty list.                                     *)
C16_FirstCardSelectorWins ==
    (SeReturned /\ se.source = "BuscoJobs Uruguay" /\ ~SeStepFailed) =>
        LET m     == CardMatches(se.page)
            upto  == IF m = {} THEN Len(job_selectors) ELSE Least(m)
            cards == IF m = {} THEN <<>> ELSE se.page.cardsets[Least(m)].cards
        IN  /\ FindCalls(se.res.calls) = [j \in 1..upto |-> <<"find_elements", j>>]
            /\ se.res.jobs = Emitted("BuscoJobs Uruguay", AllFields, cards,
                                     Min(se.max_results, Len(cards)))
            /\ m = {} => se.res.jobs = <<>>

\* The first four selectors fail, the fifth finds cards and so would the
\* later ones: five queries were made and the fifth one's cards returned.
C16_Witness ==
    /\ SeReturned /\ se.source = "BuscoJobs Uruguay" /\ ~SeStepFailed
    /\ \A j \in 1..4 : se.page.cardsets[j].error
    /\ CardMatches(se.page) = 5..Len(job_selectors)
    /\ Len(FindCalls(se.res.calls)) = 5
    /\ se.res.jobs # <<>>
    /\ se.res.jobs[1].title # <<"z">>

-----------------------------------------------------------------------------
(* Claims about a batch run, under Spec.                                   *)

\* The indices of the postings of all_jobs that are the first of their
\* (title, company).
FirstSeen ==
    { i \in 1..Len(all_jobs) :
        \A j \in 1..(i - 1) :
            ~(all_jobs[j].title = all_jobs[i].title
              /\ all_jobs[j].company = all_jobs[i].company) }

\* The k-th smallest member of a set of numbers.
Nth(S, k) == CHOOSE i \in S : Cardinality({ j \in S : j <= i }) = k

(* C4: the list a batch function returns is the accumulated list with, for *)
(* every (title, company), all postings but the first one met removed and  *)
(* the order kept: no two postings of the result have the same (title,     *)
(* company), whatever their sources.                                       *)
C4_DedupeFirstSeen ==
    pc = "done" =>
        /\ Len(unique_jobs) = Cardinality(FirstSeen)
        /\ \A k \in 1..Len(unique_jobs) : unique_jobs[k] = all_jobs[Nth(FirstSeen, k)]
        /\ \A k, l \in 1..Len(unique_jobs) :
              (unique_jobs[k].title = unique_jobs[l].title
               /\ unique_jobs[k].company = unique_jobs[l].company) => k = l

\* A run whose accumulated list holds the same (title, company) from two
\* sources, and the same title with another company, returned with the
\* first source's posting and both companies.
C4_Witness ==
    /\ pc = "done"
    /\ Len(all_jobs) = 3
    /\ Len(unique_jobs) = 2
    /\ all_jobs[1].source # all_jobs[3].source
    /\ all_jobs[1].title = all_jobs[3].title
    /\ all_jobs[1].company = all_jobs[3].company
    /\ all_jobs[2].title = all_jobs[1].title
    /\ all_jobs[2].company # all_jobs[1].company
    /\ unique_jobs = <<all_jobs[1], all_jobs[2]>>

(* C6, as claimed: after a searcher call in which setup_driver failed, the *)
(* batch is on its way out with the exception and queries no further      *)
(* source.  The code goes on with the loop.                               *)
C6_SetupFailureIsFatal ==
    (last.driver = "None" /\ last.page.setup \in {"no_session", "session_then_error"})
        => pc \in {"finally_raising", "raised"}

IsCall == pc = "loop" /\ Stmt # "sleep" /\ (si' # si \/ pc' # pc)

C8_OneSessionReleasedOnce ==
    /\ created \in {0, 1}
    /\ (driver = "None") <=> (created = 0)
    /\ last = NoCall => created = 0
    /\ last.driver # "None" =>
          /\ <<"setup_driver", 0>> \notin Range(last.res.calls)
          /\ last.res.created = 0
          /\ last.res.driver = last.driver
    /\ pc \in {"loop", "finally", "finally_raising"} => released = 0
    /\ pc \in {"dedupe", "done", "raised"} => released = created

\* A run left by an exception raised inside the loops, after two searcher
\* calls shared one session: the session has been released once.
C8_Witness ==
    /\ pc = "raised"
    /\ created = 1 /\ released = 1
    /\ last.driver = "open"
    /\ driver = "quit"

\* The order in which search_jobs_multiple_sources is to query the sources.
SourceOrder == <<"LinkedIn", "Indeed", "BuscoJobs Uruguay">>

Rank(source) == Least({ i \in 1..Len(SourceOrder) : SourceOrder[i] = source })

\* The number of the (keyword, location) pair the loops are at, counting
\* the pairs in the order keywords first, locations within a keyword.
PairNo == (ki - 1) * Len(locations) + li

\* The number of (keyword, location) pairs queried so far.
PairsQueried == Min(PairNo, Len(keywords) * Len(locations))

\* The places of the accumulated list where a posting is followed by one
\* of an earlier source.
Descents ==
    { i \in 1..(Len(all_jobs) - 1) :
        Rank(all_jobs[i + 1].source) < Rank(all_jobs[i].source) }

(* C17: search_jobs_multiple_sources makes its searcher calls in the order *)
(* LinkedIn, Indeed, BuscoJobs within a (keyword, location) pair, the      *)
(* pairs in the order of the keywords and, within a keyword, of the        *)
(* locations; each call's result is appended to the accumulated list, so   *)
(* the list is the concatenation of the results in call order and the      *)
(* posting kept for a (title, company) met several times within one pair   *)
(* is the one of the earliest source in that order.                        *)
C17_FixedQueryOrder ==
    /\ [](mode = "multiple_sources" =>
            /\ Cardinality(Descents) < PairsQueried
            /\ (pc = "done" /\ PairsQueried = 1) =>
                  \A k \in 1..Len(unique_jobs) : \A i \in 1..Len(all_jobs) :
                      JobKey(all_jobs[i]) = JobKey(unique_jobs[k])
                          => Rank(unique_jobs[k].source) <= Rank(all_jobs[i].source))
    /\ [][ mode = "multiple_sources" =>
             /\ IsCall =>
                   /\ si \in 1..Len(SourceOrder)
                   /\ last'.source = SourceOrder[si]
                   /\ all_jobs' = all_jobs \o last'.res.jobs
                   /\ si' = si + 1 /\ ki' = ki /\ li' = li
             /\ (pc = "loop" /\ si' = 1 /\ si # 1) =>
                   /\ si = Len(SourceOrder) + 1
                   /\ all_jobs' = all_jobs
                   /\ PairNo' = PairNo + 1
                   /\ pc' = "loop" => li' \in 1..Len(locations)
                   /\ pc' # "loop" => PairNo = Len(keywords) * Len(locations) ]_vars

\* A run over two pairs: Indeed and BuscoJobs return the same
\* (title, company) for the first pair and LinkedIn returns it for the
\* second; the posting kept is Indeed's.
C17_Witness ==
    /\ pc = "done"
    /\ mode = "multiple_sources"
    /\ Len(all_jobs) = 3
    /\ all_jobs[1].source = "Indeed"
    /\ all_jobs[2].source = "BuscoJobs Uruguay"
    /\ all_jobs[3].source = "LinkedIn"
    /\ JobKey(all_jobs[2]) = JobKey(all_jobs[1])
    /\ JobKey(all_jobs[3]) = JobKey(all_jobs[1])
    /\ unique_jobs = <<all_jobs[1]>>

-----------------------------------------------------------------------------
(* Claims about the pagination loader, under SpecScroll.                   *)

\* A pass of the loop body in which no driver call raised.
Sampled ==
    sc.pc = "test" /\ sc.loaded_results < sc.max_results /\ sc' # sc /\ ~sc'.exc

(* C12: the pagination loader leaves its loop in the pass in which the     *)
(* height sampled after the scroll equals the height of the previous       *)
(* sample, whether or not the number of loaded results has reached         *)
(* max_results, and it goes on to the loop condition otherwise; once it    *)
(* has left the loop it scrolls no more.                                   *)
C12_StopsOnStableHeight ==
    [][ /\ Sampled => (sc'.pc = "done" <=> sc'.last_height = sc.last_height)
        /\ sc.pc = "done" => sc' = sc ]_vars

\* The loader has returned after two scrolls, without an error, with fewer
\* results loaded than max_results.
C12_Witness ==
    /\ sc.pc = "done"
    /\ ~sc.exc
    /\ sc.scrolls = 2
    /\ sc.loaded_results < sc.max_results

(* C13, as claimed: the pagination loader always returns, whatever heights *)
(* and result counts the page reports.  The loop has no iteration ceiling: *)
(* a page whose height differs at every sample while the count stays below *)
(* max_results keeps it running.                                           *)
C13_LoaderTerminates ==
    <>(sc.pc = "done")

====
